---------------------------- MODULE Spec2Model ----------------------------
(***************************************************************************)
(* Verification model of the aegis video pipeline:                         *)
(*   - server_node/webrtc/receiver.py   VideoReceiver (leaky-bucket intake)*)
(*   - server_node/core/frame_processor.py  FrameProcessor                 *)
(*   - server_node/core/notifications.py    NotificationManager            *)
(*   - server_node/core/database.py         DatabaseManager                *)
(*   - server_node/core/hls_recorder.py     HLSRecorder                    *)
(*   - camera_node/main.py                  connect / run                  *)
(* Each component has its own specification (SpecRecv, SpecFP, SpecNotif,  *)
(* SpecHLS, SpecEdge); the variables of the other components stay at their *)
(* initial values.                                                         *)
(***************************************************************************)
EXTENDS Integers, Sequences, FiniteSets, TLC

VARIABLES
    \* ---- VideoReceiver (receiver.py) ----
    rnow,           \* time in ticks of half a grace window (0.5 ms)
    arrT,           \* arrT[i] = arrival time of frame i on the track (frames are 1..Len)
    pulled,         \* number of frames taken from the track by recv()
    trackEnded,     \* the remote track has ended: recv() raises once the queue is empty
    rpc,            \* position of VideoReceiver.run
    frame,          \* _drain_buffer's local 'frame' (0: none)
    drained,        \* _drain_buffer's local 'drained'
    graceDeadline,  \* expiry of the running wait_for(recv, 0.001)
    pollDeadline,   \* expiry of the running wait_for(_drain_buffer, 1.0)
    drainStart,     \* time the running _drain_buffer call started
    drainFirst,     \* first frame pulled by the running _drain_buffer call
    discarded,      \* frames pulled and then dropped (overwritten or cancelled)
    returns,        \* number of _drain_buffer calls that returned a frame
    handed,         \* frames handed to recorder.push_frame / processor.process
    latest_frame,   \* latest_frames[camera_id] (0: none)
    running,        \* VideoReceiver.running
    connected,      \* camera_id \in connected_cameras
    active,         \* receiver \in active_receivers
    \* ---- wall clock of the server (time.time(), whole seconds) ----
    now,
    \* ---- NotificationManager (notifications.py) ----
    configured,     \* configure() has run (asset_manager.load_manifest, once)
    notif_enabled,  \* NotificationManager.enabled
    webhook_url,    \* a webhook URL is set
    cooldown_seconds,
    last_alerts,    \* label -> time of the last fired alert (a partial function)
    alertLog,       \* every send_alert call so far: [label, t, cam, on, fired]
    \* ---- HLSRecorder (hls_recorder.py) ----
    hls_process,    \* self.process: 0 for None, else the number of the subprocess
    hls_recording,  \* self.recording
    hls_stopping,   \* self.stopping
    hls_startCalled, \* VideoReceiver.__init__ has called recorder.start()
    hls_started,    \* number of subprocesses launched so far
    hls_dead,       \* subprocesses that died by themselves (their pipe is broken)
    hls_terminated, \* subprocesses stopped by stop()
    hls_written,    \* hls_written[p]: frames written to subprocess p
    hls_last,       \* what the last push_frame call did ("none": another call came since)
    \* ---- camera_node run loop (camera_node/main.py) ----
    pcState,        \* pc.connectionState
    haveRemote,     \* an answer has been applied (setRemoteDescription succeeded)
    epc,            \* position of run()
    camOpen,        \* track.cap.isOpened()
    attempts,       \* calls of connect()
    failedAttempts, \* calls of connect() that returned False
    ddilCycles,     \* DDIL fallback cycles entered
    motionChecks,   \* DDIL cycles that got a frame and computed its motion ratio
    records,        \* lines appended to pending.txt
    lastRatio,      \* motion ratio (percent) of the last cycle's frame, -1: no frame
    lastAppended,   \* lines appended by the last cycle
    \* ---- FrameProcessor (frame_processor.py) and DatabaseManager (database.py) ----
    model_loaded,   \* self.model is not None
    frame_count,    \* self.frame_count, kept modulo INFERENCE_INTERVAL (its only use)
    inference_future, \* "none", or the state of the Future: running/done_dets/done_empty/failed
    jobs,           \* jobs submitted to the executor and not yet collected
    trk,            \* DeepSort: the state of each track identifier
    latest_tracks,  \* self.latest_tracks: live identifier -> is_confirmed() (all that is read later)
    active_tracks,  \* self.active_tracks: identifier -> [row_id, label, max_conf, last_seen]
    db_conn,        \* db_manager.conn is not None
    db_rows,        \* the events table, [track_id, label, max_conf]; a row's id is its index
    createCalls,    \* createCalls[id]: calls of db_manager.create_event for identifier id
    everConfirmed,  \* identifiers that a lifecycle pass has seen confirmed
    maxSeen,        \* maxSeen[id]: highest confidence a lifecycle pass has seen for id
    firstConcrete,  \* firstConcrete[id]: first class a pass was given for id ("none": none yet)
    detection_count, \* the asset manager's detection_count for the camera
    \* ---- the server's sessions (receiver.py: offer, on_track, module globals) ----
    receivers,      \* receivers[r]: [cam, st] of the r-th VideoReceiver created
    connected_cameras,
    active_receivers,
    latest_frames,  \* latest_frames[cam]: the receiver whose frame is stored (0: no entry)
    frame_lock,     \* holder of frame_lock (0: free)
    lastRead        \* the last read of latest_frames by the web UI

recvVars == <<rnow, arrT, pulled, trackEnded, rpc, frame, drained, graceDeadline,
              pollDeadline, drainStart, drainFirst, discarded, returns, handed,
              latest_frame, running, connected, active>>

notifVars == <<configured, notif_enabled, webhook_url, cooldown_seconds, last_alerts,
               alertLog>>

hlsVars == <<hls_process, hls_recording, hls_stopping, hls_startCalled, hls_started,
             hls_dead, hls_terminated, hls_written, hls_last>>

edgeVars == <<pcState, haveRemote, epc, camOpen, attempts, failedAttempts, ddilCycles,
              motionChecks, records, lastRatio, lastAppended>>

fpVars == <<model_loaded, frame_count, inference_future, jobs, trk, latest_tracks,
            active_tracks, db_conn, db_rows, createCalls, everConfirmed, maxSeen,
            firstConcrete, detection_count>>

sessVars == <<receivers, connected_cameras, active_receivers, latest_frames, frame_lock,
              lastRead>>

notRecv == <<now, notifVars, edgeVars, fpVars, sessVars>>

notNotif == <<recvVars, hlsVars, edgeVars, fpVars, sessVars>>

notHLS == <<recvVars, now, notifVars, edgeVars, fpVars, sessVars>>

notEdge == <<recvVars, now, notifVars, hlsVars, fpVars, sessVars>>

notFP == <<recvVars, hlsVars, edgeVars, sessVars>>

notSess == <<recvVars, now, notifVars, hlsVars, edgeVars, fpVars>>

vars == <<recvVars, now, notifVars, hlsVars, edgeVars, fpVars, sessVars>>

(***************************************************************************)
(* Bounds of the model                                                     *)
(***************************************************************************)
MaxFrames == 4
MaxTime == 6
\* NotificationManager alone: the clock's end and the number of send_alert calls
MaxClockN == 7
MaxCalls == 3
\* HLSRecorder: subprocess launches and frames written per subprocess
MaxProcs == 3
\* receivers created by offers
MaxRecv == 3
MaxWrites == 2
\* camera node: calls of connect()
MaxAttempts == 3
\* FrameProcessor: track identifiers handed out by the tracker, and the clock's end
MaxTracks == 2
MaxClock == 11

(***************************************************************************)
(* VideoReceiver: leaky-bucket intake                                      *)
(***************************************************************************)
\* wait_for(self.track.recv(), timeout=0.001): one grace window is two ticks
GraceTicks == 2
\* wait_for(self._drain_buffer(), timeout=1.0), scaled to two grace windows
PollTicks == 4

\* the recorder's fields as one record: [process, recording, stopping, started, terminated]
Recorder ==
    [process |-> hls_process, recording |-> hls_recording, stopping |-> hls_stopping,
     started |-> hls_started, terminated |-> hls_terminated]

StopOpLeavesRecording(r) ==
    [r EXCEPT !.stopping = TRUE,
              !.terminated = IF r.process # 0 THEN r.terminated \cup {r.process}
                                              ELSE r.terminated]

\* HLSRecorder.stop: stopping = True; recording = False; terminate/kill; process = None
StopOp(r) ==
    [r EXCEPT !.stopping = TRUE,
              !.recording = FALSE,
              !.terminated = IF r.process # 0 THEN r.terminated \cup {r.process}
                                              ELSE r.terminated,
              !.process = 0]

\* HLSRecorder.start: nothing when recording; else Popen (ok: launched, or it raised)
StartOp(r, ok) ==
    IF r.recording THEN r
    ELSE IF ok THEN [r EXCEPT !.process = r.started + 1,
                              !.started = r.started + 1,
                              !.recording = TRUE]
    ELSE [r EXCEPT !.recording = FALSE]

\* push_frame: except (BrokenPipeError, ValueError): if not self.stopping: stop(); start()
RecoverOp(r, ok) == IF r.stopping THEN r ELSE StartOp(StopOp(r), ok)

\* push_frame as the intake loop calls it: return when not recording or without a
\* process; broken: the write raises BrokenPipeError (ok: the restart launches)
PushOp(r, broken, ok) ==
    IF ~r.recording \/ r.process = 0 THEN r
    ELSE IF broken THEN RecoverOp(r, ok)
    ELSE r

SetRecorder(r) ==
    /\ hls_process' = r.process
    /\ hls_recording' = r.recording
    /\ hls_stopping' = r.stopping
    /\ hls_started' = r.started
    /\ hls_terminated' = r.terminated

\* the recorder after HLSRecorder.stop has run on it
RecorderStopped ==
    /\ SetRecorder(StopOp(Recorder))
    /\ UNCHANGED <<hls_startCalled, hls_dead, hls_written, hls_last>>

QueueEmpty == pulled = Len(arrT)

InRecv == rpc \in {"recv_first", "recv_timed"}

InitRecv ==
    /\ rnow = 0
    /\ arrT = << >>
    /\ pulled = 0
    /\ trackEnded = FALSE
    /\ rpc = "loop"
    /\ frame = 0
    /\ drained = 0
    /\ graceDeadline = 0
    /\ pollDeadline = 0
    /\ drainStart = 0
    /\ drainFirst = 0
    /\ discarded = {}
    /\ returns = 0
    /\ handed = << >>
    /\ latest_frame = 0
    /\ running = TRUE
    /\ connected = TRUE
    /\ active = TRUE

\* The remote peer delivers one more frame into the track's queue.
Arrive ==
    /\ ~trackEnded
    /\ Len(arrT) < MaxFrames
    /\ arrT' = Append(arrT, rnow)
    /\ UNCHANGED <<rnow, pulled, trackEnded, rpc, frame, drained, graceDeadline,
                   pollDeadline, drainStart, drainFirst, discarded, returns, handed,
                   latest_frame, running, connected, active>>
    /\ UNCHANGED <<hlsVars, notRecv>>

\* The remote track ends (peer gone): recv() raises once the queue is drained.
TrackEnd ==
    /\ ~trackEnded
    /\ trackEnded' = TRUE
    /\ UNCHANGED <<rnow, arrT, pulled, rpc, frame, drained, graceDeadline,
                   pollDeadline, drainStart, drainFirst, discarded, returns, handed,
                   latest_frame, running, connected, active>>
    /\ UNCHANGED <<hlsVars, notRecv>>

\* A recv() that can complete, or a timer that has expired, acts before time moves on.
Urgent ==
    \/ InRecv /\ ~QueueEmpty /\ (rpc = "recv_first" \/ rnow < graceDeadline)
    \/ rpc = "recv_timed" /\ rnow >= graceDeadline
    \/ InRecv /\ rnow >= pollDeadline

TickR ==
    /\ rnow < MaxTime
    /\ ~Urgent
    /\ rnow' = rnow + 1
    /\ UNCHANGED <<arrT, pulled, trackEnded, rpc, frame, drained, graceDeadline,
                   pollDeadline, drainStart, drainFirst, discarded, returns, handed,
                   latest_frame, running, connected, active>>
    /\ UNCHANGED <<hlsVars, notRecv>>

ContinueLoopAlways(r) == TRUE

\* run: while self.running
ContinueLoop(r) == r

\* run: 'while self.running:' and the start of wait_for(self._drain_buffer(), 1.0)
LoopCheck ==
    /\ rpc = "loop"
    /\ IF ContinueLoop(running)
         THEN /\ rpc' = "recv_first"
              /\ pollDeadline' = rnow + PollTicks
              /\ drainStart' = rnow
         ELSE /\ rpc' = "finally"
              /\ UNCHANGED <<pollDeadline, drainStart>>
    /\ frame' = 0
    /\ drained' = 0
    /\ drainFirst' = 0
    /\ UNCHANGED <<rnow, arrT, pulled, trackEnded, graceDeadline, discarded, returns,
                   handed, latest_frame, running, connected, active>>
    /\ UNCHANGED <<hlsVars, notRecv>>

\* _drain_buffer: frame = await self.track.recv()
RecvFirst ==
    /\ rpc = "recv_first"
    /\ ~QueueEmpty
    /\ pulled' = pulled + 1
    /\ frame' = pulled + 1
    /\ drainFirst' = pulled + 1
    /\ graceDeadline' = rnow + GraceTicks
    /\ rpc' = "recv_timed"
    /\ UNCHANGED <<rnow, arrT, trackEnded, drained, pollDeadline, drainStart, discarded,
                   returns, handed, latest_frame, running, connected, active>>
    /\ UNCHANGED <<hlsVars, notRecv>>

NewerFrameStale(old, newer) == old

\* _drain_buffer: frame = newer_frame
NewerFrame(old, newer) == newer

\* _drain_buffer: newer_frame = await wait_for(recv, 0.001); frame = newer_frame; drained += 1
RecvNewer ==
    /\ rpc = "recv_timed"
    /\ ~QueueEmpty
    /\ rnow < graceDeadline
    /\ pulled' = pulled + 1
    /\ frame' = NewerFrame(frame, pulled + 1)
    /\ discarded' = discarded \cup ({frame, pulled + 1} \ {frame'})
    /\ drained' = drained + 1
    /\ graceDeadline' = rnow + GraceTicks
    /\ UNCHANGED <<rnow, arrT, trackEnded, rpc, pollDeadline, drainStart, drainFirst,
                   returns, handed, latest_frame, running, connected, active>>
    /\ UNCHANGED <<hlsVars, notRecv>>

\* _drain_buffer: except asyncio.TimeoutError: break; return frame
GraceTimeout ==
    /\ rpc = "recv_timed"
    /\ rnow >= graceDeadline
    /\ rpc' = "returned"
    /\ returns' = returns + 1
    /\ UNCHANGED <<rnow, arrT, pulled, trackEnded, frame, drained, graceDeadline,
                   pollDeadline, drainStart, drainFirst, discarded, handed,
                   latest_frame, running, connected, active>>
    /\ UNCHANGED <<hlsVars, notRecv>>

\* run: the 1.0 s wait_for cancels _drain_buffer; except asyncio.TimeoutError: continue
PollTimeout ==
    /\ InRecv
    /\ rnow >= pollDeadline
    /\ rpc' = "loop"
    /\ discarded' = discarded \cup (IF frame = 0 THEN {} ELSE {frame})
    /\ frame' = 0
    /\ UNCHANGED <<rnow, arrT, pulled, trackEnded, drained, graceDeadline, pollDeadline,
                   drainStart, drainFirst, returns, handed, latest_frame, running,
                   connected, active>>
    /\ UNCHANGED <<hlsVars, notRecv>>

OnTrackErrorContinue == "loop"

\* run: except Exception as e: ...; break
OnTrackError == "finally"

\* run: recv() raises on an ended track; except Exception: break
TrackError ==
    /\ InRecv
    /\ trackEnded
    /\ QueueEmpty
    /\ rpc' = OnTrackError
    /\ discarded' = discarded \cup (IF frame = 0 THEN {} ELSE {frame})
    /\ frame' = 0
    /\ UNCHANGED <<rnow, arrT, pulled, trackEnded, drained, graceDeadline, pollDeadline,
                   drainStart, drainFirst, returns, handed, latest_frame, running,
                   connected, active>>
    /\ UNCHANGED <<hlsVars, notRecv>>

AfterHandSameFrame == "returned"

\* run: after the register write the body of 'while self.running' is over; the next
\* iteration starts a new drain
AfterHand == "loop"

\* run: recorder.push_frame(img); processor.process(img.copy()); latest_frames[id] = out
Hand ==
    /\ rpc = "returned"
    /\ handed' = Append(handed, frame)
    /\ latest_frame' = frame
    /\ rpc' = AfterHand
    /\ \E broken \in BOOLEAN, ok \in BOOLEAN :
         /\ broken => hls_started < MaxProcs
         /\ SetRecorder(PushOp(Recorder, broken, ok))
    /\ UNCHANGED <<hls_startCalled, hls_dead, hls_written, hls_last>>
    /\ UNCHANGED <<rnow, arrT, pulled, trackEnded, frame, drained, graceDeadline,
                   pollDeadline, drainStart, drainFirst, discarded, returns, running,
                   connected, active>>
    /\ UNCHANGED notRecv

\* run: finally: self.stop(); connected_cameras.discard(id); active_receivers.discard(self)
Finally ==
    /\ rpc = "finally"
    /\ running' = FALSE
    /\ connected' = FALSE
    /\ active' = FALSE
    /\ rpc' = "stopped"
    /\ RecorderStopped
    /\ UNCHANGED <<rnow, arrT, pulled, trackEnded, frame, drained, graceDeadline,
                   pollDeadline, drainStart, drainFirst, discarded, returns, handed,
                   latest_frame>>
    /\ UNCHANGED notRecv

\* VideoReceiver.stop, called by cleanup() for every receiver in active_receivers
StopReceiver ==
    /\ active
    /\ running
    /\ running' = FALSE
    /\ RecorderStopped
    /\ UNCHANGED <<rnow, arrT, pulled, trackEnded, rpc, frame, drained, graceDeadline,
                   pollDeadline, drainStart, drainFirst, discarded, returns, handed,
                   latest_frame, connected, active>>
    /\ UNCHANGED notRecv

NextRecv ==
    \/ Arrive
    \/ TrackEnd
    \/ TickR
    \/ LoopCheck
    \/ RecvFirst
    \/ RecvNewer
    \/ GraceTimeout
    \/ PollTimeout
    \/ TrackError
    \/ Hand
    \/ Finally
    \/ StopReceiver


(***************************************************************************)
(* NotificationManager: per-label alert cooldown                           *)
(***************************************************************************)
Classes == {"person", "car"}

\* the values of notifications.cooldown_seconds offered by the manifest
CooldownChoices == {2, 6}

\* __init__: cooldown_seconds = 60
DefaultCooldown == 60

\* camera identifiers: offer's camera_id, FrameProcessor.camera_id
Cams == {0, 1}

InitNotif ==
    /\ configured = FALSE
    /\ notif_enabled = FALSE
    /\ webhook_url = FALSE
    /\ cooldown_seconds = DefaultCooldown
    /\ last_alerts = << >>
    /\ alertLog = << >>

\* configure: enabled is cleared when no webhook URL is given
Configure ==
    /\ ~configured
    /\ \E e \in BOOLEAN, u \in BOOLEAN, cd \in CooldownChoices :
         /\ notif_enabled' = (e /\ u)
         /\ webhook_url' = u
         /\ cooldown_seconds' = cd
    /\ configured' = TRUE
    /\ UNCHANGED <<notNotif, now, last_alerts, alertLog>>

\* send_alert: self.last_alerts.get(label, 0)
LastTime(la, label) == IF label \in DOMAIN la THEN la[label] ELSE 0

CooldownActiveOff(la, label, t) == FALSE

\* send_alert: now - last_time < self.cooldown_seconds
CooldownActive(la, label, t) == t - LastTime(la, label) < cooldown_seconds

\* send_alert returns before dispatching
Suppressed(la, label, t) ==
    \/ ~notif_enabled
    \/ ~webhook_url
    \/ CooldownActive(la, label, t)

AlertsAfterOnEveryCall(la, label, t) ==
    [l \in DOMAIN la \cup {label} |-> IF l = label THEN t ELSE la[l]]

\* send_alert: self.last_alerts[label] = now (only when the alert is dispatched)
AlertsAfter(la, label, t) ==
    IF Suppressed(la, label, t)
      THEN la
      ELSE [l \in DOMAIN la \cup {label} |-> IF l = label THEN t ELSE la[l]]

LogAfterPerCamera(log, la, label, t, cam) ==
    Append(log, [label |-> label, t |-> t, cam |-> cam,
                 on |-> (notif_enabled /\ webhook_url),
                 fired |-> /\ notif_enabled /\ webhook_url
                           /\ ~\E i \in 1..Len(log) :
                                 /\ log[i].label = label /\ log[i].cam = cam
                                 /\ log[i].fired
                                 /\ t - log[i].t < cooldown_seconds])

\* the call, with whether the webhook thread was started for it
LogAfter(log, la, label, t, cam) ==
    Append(log, [label |-> label, t |-> t, cam |-> cam,
                 on |-> (notif_enabled /\ webhook_url),
                 fired |-> ~Suppressed(la, label, t)])

\* NotificationManager.send_alert(label, confidence, camera_id, frame)
SendAlert ==
    /\ Len(alertLog) < MaxCalls
    /\ \E label \in Classes, cam \in Cams :
         /\ last_alerts' = AlertsAfter(last_alerts, label, now)
         /\ alertLog' = LogAfter(alertLog, last_alerts, label, now, cam)
    /\ UNCHANGED <<notNotif, now, configured, notif_enabled, webhook_url,
                   cooldown_seconds>>

TickN ==
    /\ now < MaxClockN
    /\ now' = now + 1
    /\ UNCHANGED <<notNotif, notifVars>>

NextNotif ==
    \/ Configure
    \/ SendAlert
    \/ TickN


(***************************************************************************)
(* HLSRecorder: the encoder subprocess and its input pipe                  *)
(***************************************************************************)
InitHLS ==
    /\ hls_process = 0
    /\ hls_recording = FALSE
    /\ hls_stopping = FALSE
    /\ hls_startCalled = FALSE
    /\ hls_started = 0
    /\ hls_dead = {}
    /\ hls_terminated = {}
    /\ hls_written = [p \in 1..MaxProcs |-> 0]
    /\ hls_last = "none"

\* the recorder of a constructed VideoReceiver: recorder.start() launched ffmpeg
StartedHLS ==
    /\ hls_process = 1
    /\ hls_recording = TRUE
    /\ hls_stopping = FALSE
    /\ hls_startCalled = TRUE
    /\ hls_started = 1
    /\ hls_dead = {}
    /\ hls_terminated = {}
    /\ hls_written = [p \in 1..MaxProcs |-> 0]
    /\ hls_last = "none"

\* VideoReceiver.__init__: self.recorder.start()
HLSStart ==
    /\ ~hls_startCalled
    /\ hls_startCalled' = TRUE
    /\ \E ok \in BOOLEAN : SetRecorder(StartOp(Recorder, ok))
    /\ hls_last' = "none"
    /\ UNCHANGED <<hls_dead, hls_written>>
    /\ UNCHANGED notHLS

\* HLSRecorder.stop, called by VideoReceiver.stop
HLSStop ==
    /\ hls_startCalled
    /\ SetRecorder(StopOp(Recorder))
    /\ hls_last' = "none"
    /\ UNCHANGED <<hls_startCalled, hls_dead, hls_written>>
    /\ UNCHANGED notHLS

\* the ffmpeg subprocess exits by itself: later writes to its pipe fail
EncoderDies ==
    /\ hls_process # 0
    /\ hls_process \notin hls_dead
    /\ hls_dead' = hls_dead \cup {hls_process}
    /\ hls_last' = "none"
    /\ UNCHANGED <<hls_process, hls_recording, hls_stopping, hls_startCalled,
                   hls_started, hls_terminated, hls_written>>
    /\ UNCHANGED notHLS

\* HLSRecorder.push_frame(frame). shape3: frame.shape has three entries;
\* fault: another exception (resize, OSError) is raised before the bytes are written.
PushFrame ==
    /\ hls_startCalled
    /\ \E shape3 \in BOOLEAN, fault \in BOOLEAN, ok \in BOOLEAN :
         IF ~hls_recording \/ hls_process = 0
           THEN \* return
                /\ hls_last' = "skipped"
                /\ UNCHANGED <<hls_process, hls_recording, hls_stopping, hls_started,
                               hls_terminated, hls_written>>
           ELSE IF ~shape3 \/ (~fault /\ hls_process \in hls_dead)
           THEN \* ValueError from 'h, w, _ = frame.shape', or BrokenPipeError from write
                /\ hls_started < MaxProcs
                /\ SetRecorder(RecoverOp(Recorder, ok))
                /\ hls_last' = IF hls_stopping THEN "ignored"
                               ELSE IF ~ok THEN "restart_failed"
                               ELSE IF shape3 THEN "recovered" ELSE "recovered_shape"
                /\ UNCHANGED hls_written
           ELSE IF fault
           THEN \* except Exception: logged
                /\ hls_last' = "error"
                /\ UNCHANGED <<hls_process, hls_recording, hls_stopping, hls_started,
                               hls_terminated, hls_written>>
           ELSE \* stdin.write(frame.tobytes()); stdin.flush()
                /\ hls_written[hls_process] < MaxWrites
                /\ hls_written' = [hls_written EXCEPT ![hls_process] = @ + 1]
                /\ hls_last' = "written"
                /\ UNCHANGED <<hls_process, hls_recording, hls_stopping, hls_started,
                               hls_terminated>>
    /\ UNCHANGED <<hls_startCalled, hls_dead>>
    /\ UNCHANGED notHLS

NextHLS ==
    \/ HLSStart
    \/ HLSStop
    \/ EncoderDies
    \/ PushFrame


(***************************************************************************)
(* camera node: the resilience loop of run() and the DDIL fallback         *)
(***************************************************************************)
\* motion ratios of a frame, in percent of the 320x240 pixels
Ratios == {0, 5, 6}

EdgeFields ==
    /\ pcState = "new"
    /\ haveRemote = FALSE
    /\ epc = "tick"
    /\ attempts = 0
    /\ failedAttempts = 0
    /\ ddilCycles = 0
    /\ motionChecks = 0
    /\ records = 0
    /\ lastRatio = -1
    /\ lastAppended = 0

\* CameraStreamTrack.__init__: the camera may fail to open
InitEdge == EdgeFields /\ camOpen \in BOOLEAN

IdleEdge == EdgeFields /\ camOpen = TRUE

MotionDetectedAtThreshold(ratio) == ratio >= 5

\* run: if motion_ratio > 0.05
MotionDetected(ratio) == ratio > 5

NeedsReconnectAlways(state) == TRUE

NeedsReconnectOnFailure(state) == state \in {"failed", "closed"}

AfterDDILNoBackoff == "tick"

\* run: '# Wait before next retry': await asyncio.sleep(5), after the DDIL try block
AfterDDIL == "sleep5"

\* run: if state in ("failed", "closed", "new")
NeedsReconnect(state) == state \in {"failed", "closed", "new"}

\* run: state = pc.connectionState; state in ("failed", "closed", "new"); connect(pc, track)
\* outcome "ok": the answer was applied; "fail": connect returned False;
\* "raise": createOffer/setLocalDescription raised, which run() does not catch
EdgeAttempt ==
    /\ epc = "tick"
    /\ NeedsReconnect(pcState)
    /\ attempts < MaxAttempts
    /\ attempts' = attempts + 1
    /\ \E outcome \in {"ok", "fail", "raise"} :
         CASE outcome = "ok" ->
                /\ haveRemote' = TRUE
                /\ epc' = "tick"
                /\ UNCHANGED <<failedAttempts, pcState>>
           [] outcome = "fail" ->
                /\ failedAttempts' = failedAttempts + 1
                /\ epc' = "ddil"
                /\ UNCHANGED <<haveRemote, pcState>>
           [] outcome = "raise" ->
                \* finally: track.stop(); await pc.close()
                /\ epc' = "done"
                /\ pcState' = "closed"
                /\ UNCHANGED <<haveRemote, failedAttempts>>
    /\ UNCHANGED <<camOpen, ddilCycles, motionChecks, records, lastRatio, lastAppended>>
    /\ UNCHANGED notEdge

\* run: the DDIL cycle: cap.isOpened(), cap.read(), motion ratio, append to pending.txt
EdgeDDIL ==
    /\ epc = "ddil"
    /\ ddilCycles' = ddilCycles + 1
    /\ \E ret \in BOOLEAN, ratio \in Ratios :
         IF camOpen /\ ret
           THEN /\ motionChecks' = motionChecks + 1
                /\ lastRatio' = ratio
                /\ lastAppended' = IF MotionDetected(ratio) THEN 1 ELSE 0
                /\ records' = records + (IF MotionDetected(ratio) THEN 1 ELSE 0)
           ELSE /\ lastRatio' = -1
                /\ lastAppended' = 0
                /\ UNCHANGED <<motionChecks, records>>
    /\ epc' = AfterDDIL
    /\ UNCHANGED <<pcState, haveRemote, camOpen, attempts, failedAttempts>>
    /\ UNCHANGED notEdge

\* run: else: await asyncio.sleep(1)
EdgePassive ==
    /\ epc = "tick"
    /\ ~NeedsReconnect(pcState)
    /\ epc' = "sleep1"
    /\ UNCHANGED <<pcState, haveRemote, camOpen, attempts, failedAttempts, ddilCycles,
                   motionChecks, records, lastRatio, lastAppended>>
    /\ UNCHANGED notEdge

\* run: asyncio.sleep(5) or asyncio.sleep(1) returns
EdgeWake ==
    /\ epc \in {"sleep5", "sleep1"}
    /\ epc' = "tick"
    /\ UNCHANGED <<pcState, haveRemote, camOpen, attempts, failedAttempts, ddilCycles,
                   motionChecks, records, lastRatio, lastAppended>>
    /\ UNCHANGED notEdge

\* the peer connection's state as the transport reports it
PcChange ==
    /\ epc # "done"
    /\ \/ pcState = "new" /\ haveRemote /\ pcState' = "connecting"
       \/ pcState = "connecting" /\ pcState' \in {"connected", "failed"}
       \/ pcState = "connected" /\ pcState' = "failed"
    /\ UNCHANGED <<haveRemote, epc, camOpen, attempts, failedAttempts, ddilCycles,
                   motionChecks, records, lastRatio, lastAppended>>
    /\ UNCHANGED notEdge

NextEdge ==
    \/ EdgeAttempt
    \/ EdgeDDIL
    \/ EdgePassive
    \/ EdgeWake
    \/ PcChange


(***************************************************************************)
(* FrameProcessor: detection, tracking and the track lifecycle             *)
(***************************************************************************)
Ids == 1..MaxTracks

\* FrameProcessor.INFERENCE_INTERVAL
INFERENCE_INTERVAL == 3

\* _process_active_tracks: now - data['last_seen'] > 10.0
STALE_WINDOW == 10

\* the classes the detector reports in this model
DetClasses == {"person"}

\* track.get_det_conf() in tenths; 0 stands for None (the track is coasting)
DetConfs == {0, 9}

\* 'track.get_det_conf() or 0.5', in tenths
DEFAULT_CONF == 5

\* seconds between two events of the pipeline
TimeSteps == {10, 11}

FPFields ==
    /\ frame_count = 0
    /\ inference_future = "none"
    /\ jobs = 0
    /\ trk = [id \in Ids |-> "unused"]
    /\ latest_tracks = << >>
    /\ active_tracks = << >>
    /\ db_rows = << >>
    /\ createCalls = [id \in Ids |-> 0]
    /\ everConfirmed = {}
    /\ maxSeen = [id \in Ids |-> 0]
    /\ firstConcrete = [id \in Ids |-> "none"]
    /\ detection_count = 0

\* FrameProcessor.__init__ (the model may fail to load) and DatabaseManager._init_db
InitFP == FPFields /\ model_loaded \in BOOLEAN /\ db_conn \in BOOLEAN

IdleFP == FPFields /\ model_loaded = TRUE /\ db_conn = TRUE

\* DeepSort: a track is tentative, then confirmed, then deleted; an identifier is
\* never reused and identifiers are handed out in increasing order
NextStatus(st) ==
    CASE st = "unused" -> {"unused", "tentative"}
      [] st = "tentative" -> {"tentative", "confirmed", "deleted"}
      [] st = "confirmed" -> {"confirmed", "deleted"}
      [] st = "deleted" -> {"deleted"}

\* self.tracker.update_tracks: the possible states of the tracker after an update
TrackerAfter(t) ==
    {t2 \in [Ids -> {"unused", "tentative", "confirmed", "deleted"}] :
        /\ \A id \in Ids : t2[id] \in NextStatus(t[id])
        /\ \A id \in Ids : (id > 1 /\ t2[id] # "unused") => t2[id - 1] # "unused"}

Live(t) == {id \in Ids : t[id] \in {"tentative", "confirmed"}}

\* update_tracks returns every track that is not deleted, with is_confirmed(),
\* get_det_class() ("none": no class) and get_det_conf()
TrackerOutputs(t) ==
    {out \in [Live(t) -> [confirmed : BOOLEAN, cls : DetClasses \cup {"none"},
                          conf : DetConfs]] :
        \A id \in Live(t) :
            /\ out[id].confirmed = (t[id] = "confirmed")
            /\ ~out[id].confirmed => (out[id].cls = "none" /\ out[id].conf = 0)}

ConfirmedIn(out) == {id \in DOMAIN out : out[id].confirmed}

\* label = track.get_det_class() or "unknown"
LabelOf(tr) == IF tr.cls = "none" THEN "unknown" ELSE tr.cls

\* conf = track.get_det_conf() or 0.5
ConfOf(tr) == IF tr.conf = 0 THEN DEFAULT_CONF ELSE tr.conf

IsNewTrackAlways(id, act) == TRUE

\* if track_id not in self.active_tracks
IsNewTrack(id, act) == id \notin DOMAIN act

UpgradeLabelAlways(old, new) == new

\* if label != "unknown" and track_data['label'] == "unknown": track_data['label'] = label
UpgradeLabel(old, new) == IF new # "unknown" /\ old = "unknown" THEN new ELSE old

IsStaleInclusive(t, last_seen) == t - last_seen >= STALE_WINDOW

\* if now - data['last_seen'] > 10.0
IsStale(t, last_seen) == t - last_seen > STALE_WINDOW

CreateRowIdStale(rows, ok) == IF db_conn /\ ok THEN Len(rows) ELSE -1

\* db_manager.create_event: the row id, or -1 (no connection, or the insert raised)
CreateRowId(rows, ok) == IF db_conn /\ ok THEN Len(rows) + 1 ELSE -1

CreateRows(rows, ok, ev) == IF db_conn /\ ok THEN Append(rows, ev) ELSE rows

Max(a, b) == IF a >= b THEN a ELSE b

KeepsTrackOnlyIfPersisted(row_id) == row_id # -1

\* _process_active_tracks: self.active_tracks[track_id] = {...} follows create_event and
\* send_alert unconditionally, whatever row id create_event returned
KeepsTrack(row_id) == TRUE

\* _process_active_tracks: the body of 'for track in tracks' for one track.
\* st = [active, rows, la, log, calls]; insertOK: the INSERT statements of this pass succeed
PassTrack(st, id, tr, t, insertOK) ==
    IF ~tr.confirmed THEN st
    ELSE IF IsNewTrack(id, st.active)
    THEN LET ok == insertOK
             ev == [track_id |-> id, label |-> LabelOf(tr), max_conf |-> ConfOf(tr)]
             entry == [row_id |-> CreateRowId(st.rows, ok), label |-> LabelOf(tr),
                       max_conf |-> ConfOf(tr), last_seen |-> t]
         IN [active |-> IF KeepsTrack(entry.row_id)
                            THEN [i \in DOMAIN st.active \cup {id} |->
                                     IF i = id THEN entry ELSE st.active[i]]
                            ELSE st.active,
             rows |-> CreateRows(st.rows, ok, ev),
             la |-> AlertsAfter(st.la, LabelOf(tr), t),
             log |-> LogAfter(st.log, st.la, LabelOf(tr), t, 0),
             calls |-> [st.calls EXCEPT ![id] = @ + 1]]
    ELSE [st EXCEPT !.active[id].last_seen = t,
                    !.active[id].label = UpgradeLabel(@, LabelOf(tr))]

RECURSIVE PassLoop(_, _, _, _, _)
\* 'for track in tracks': the tracks in the tracker's order, identifiers k..MaxTracks
PassLoop(st, k, out, t, insertOK) ==
    IF k > MaxTracks THEN st
    ELSE PassLoop(IF k \in DOMAIN out THEN PassTrack(st, k, out[k], t, insertOK)
                                      ELSE st,
                  k + 1, out, t, insertOK)

\* _process_active_tracks: '3. CLEANUP STALE TRACKS'
DropStale(act, t) ==
    [id \in {i \in DOMAIN act : ~IsStale(t, act[i].last_seen)} |-> act[id]]

LifecyclePassCleanupFirst(st, out, t, insertOK) ==
    PassLoop([st EXCEPT !.active = DropStale(st.active, t)], 1, out, t, insertOK)

\* _process_active_tracks(tracks, frame) on the state st
LifecyclePass(st, out, t, insertOK) ==
    LET after == PassLoop(st, 1, out, t, insertOK)
    IN [after EXCEPT !.active = DropStale(after.active, t)]

OnCadenceEveryFrame(k) == TRUE

OnCadenceNever(k) == FALSE

\* process: self.frame_count % self.INFERENCE_INTERVAL == 0 (k: the count modulo the interval)
OnCadence(k) == k % INFERENCE_INTERVAL = 0

SlotAfterErrorKept == "failed"

\* process: except Exception: ...; self.inference_future = None
SlotAfterError == "none"

SubmitAllowedAlways(fut) == TRUE

\* process: 'and self.inference_future is None'
SubmitAllowed(fut) == fut = "none"

\* FrameProcessor.process(frame): collect a completed job, update the tracker and run
\* the lifecycle pass when there are detections, submit a new job
ProcessFrame ==
    LET fc == (frame_count + 1) % INFERENCE_INTERVAL
        collected == inference_future \in {"done_dets", "done_empty", "failed"}
        hasDets == inference_future = "done_dets"
        fut1 == IF inference_future = "failed" THEN SlotAfterError
                ELSE IF collected THEN "none" ELSE inference_future
        jobs1 == IF collected THEN jobs - 1 ELSE jobs
        submit == OnCadence(fc) /\ model_loaded /\ SubmitAllowed(fut1)
        st == [active |-> active_tracks, rows |-> db_rows, la |-> last_alerts,
               log |-> alertLog, calls |-> createCalls]
    IN /\ frame_count' = fc
       /\ inference_future' = IF submit THEN "running" ELSE fut1
       /\ jobs' = IF submit THEN jobs1 + 1 ELSE jobs1
       /\ IF hasDets
            THEN \E t2 \in TrackerAfter(trk) :
                 \E out \in TrackerOutputs(t2) :
                 \E insertOK \in BOOLEAN :
                   LET res == LifecyclePass(st, out, now, insertOK)
                   IN /\ trk' = t2
                      /\ latest_tracks' = [id \in DOMAIN out |-> out[id].confirmed]
                      /\ active_tracks' = res.active
                      /\ db_rows' = res.rows
                      /\ last_alerts' = res.la
                      /\ alertLog' = res.log
                      /\ createCalls' = res.calls
                      /\ everConfirmed' = everConfirmed \cup ConfirmedIn(out)
                      /\ maxSeen' = [id \in Ids |->
                                       IF id \in ConfirmedIn(out)
                                         THEN Max(maxSeen[id], ConfOf(out[id]))
                                         ELSE maxSeen[id]]
                      /\ firstConcrete' = [id \in Ids |->
                                       IF id \in ConfirmedIn(out) /\ firstConcrete[id] = "none"
                                         THEN out[id].cls
                                         ELSE firstConcrete[id]]
                      /\ detection_count' = Cardinality(ConfirmedIn(out))
            ELSE UNCHANGED <<trk, latest_tracks, active_tracks, db_rows, last_alerts,
                             alertLog, createCalls, everConfirmed, maxSeen,
                             firstConcrete, detection_count>>
       /\ UNCHANGED <<now, model_loaded, db_conn, configured, notif_enabled, webhook_url,
                      cooldown_seconds>>
       /\ UNCHANGED notFP

\* the executor finishes the job: with detections, with none, or by raising
JobComplete ==
    /\ inference_future = "running"
    /\ inference_future' \in {"done_dets", "done_empty", "failed"}
    /\ UNCHANGED <<model_loaded, frame_count, jobs, trk, latest_tracks, active_tracks,
                   db_conn, db_rows, createCalls, everConfirmed, maxSeen,
                   firstConcrete, detection_count>>
    /\ UNCHANGED <<now, notifVars>>
    /\ UNCHANGED notFP

TickFP ==
    /\ \E d \in TimeSteps :
         /\ now + d <= MaxClock
         /\ now' = now + d
    /\ UNCHANGED <<notifVars, fpVars>>
    /\ UNCHANGED notFP

NextFP ==
    \/ ProcessFrame
    \/ JobComplete
    \/ TickFP

CacheOnUpdateErrorCleared(old) == << >>

\* process: 'self.latest_tracks = self.tracker.update_tracks(...)' assigns only after the
\* call has returned; when the call raises, self.latest_tracks keeps the old list
CacheOnUpdateError(old) == old

\* process, around the tracker block, on a frame that collects a job with detections:
\* the count, the cleared slot and the submission of the next job
CollectWithDets ==
    LET fc == (frame_count + 1) % INFERENCE_INTERVAL
        submit == OnCadence(fc) /\ model_loaded /\ SubmitAllowed("none")
    IN /\ inference_future = "done_dets"
       /\ frame_count' = fc
       /\ inference_future' = (IF submit THEN "running" ELSE "none")
       /\ jobs' = (IF submit THEN jobs ELSE jobs - 1)

\* process on a frame whose tracker.update_tracks call raises: 'except Exception' logs,
\* the lifecycle pass is not reached, the rest of process runs
TrackerUpdateRaises ==
    /\ CollectWithDets
    /\ latest_tracks' = CacheOnUpdateError(latest_tracks)
    /\ UNCHANGED <<trk, active_tracks, db_rows, last_alerts, alertLog, createCalls,
                   everConfirmed, maxSeen, firstConcrete, detection_count>>
    /\ UNCHANGED <<now, model_loaded, db_conn, configured, notif_enabled, webhook_url,
                   cooldown_seconds>>
    /\ UNCHANGED notFP

\* the tracker output restricted to the identifiers before k
Before(out, k) == [id \in {i \in DOMAIN out : i < k} |-> out[id]]

\* process on a frame whose update_tracks call returns and whose lifecycle pass raises
\* in _save_snapshot (os.makedirs, cv2.imwrite) for the new confirmed track k: the
\* tracks before k have been handled, k and the tracks after it have not, neither
\* the cleanup nor update_detections is reached
LifecyclePassRaises ==
    LET st == [active |-> active_tracks, rows |-> db_rows, la |-> last_alerts,
               log |-> alertLog, calls |-> createCalls]
    IN /\ CollectWithDets
       /\ \E t2 \in TrackerAfter(trk) :
          \E out \in TrackerOutputs(t2) :
          \E insertOK \in BOOLEAN :
          \E k \in ConfirmedIn(out) \ DOMAIN active_tracks :
            LET done == Before(out, k)
                res == PassLoop(st, 1, done, now, insertOK)
            IN /\ trk' = t2
               /\ latest_tracks' = [id \in DOMAIN out |-> out[id].confirmed]
               /\ active_tracks' = res.active
               /\ db_rows' = res.rows
               /\ last_alerts' = res.la
               /\ alertLog' = res.log
               /\ createCalls' = res.calls
               /\ everConfirmed' = everConfirmed \cup ConfirmedIn(done)
               /\ maxSeen' = [id \in Ids |->
                                IF id \in ConfirmedIn(done)
                                  THEN Max(maxSeen[id], ConfOf(out[id]))
                                  ELSE maxSeen[id]]
               /\ firstConcrete' = [id \in Ids |->
                                IF id \in ConfirmedIn(done) /\ firstConcrete[id] = "none"
                                  THEN out[id].cls
                                  ELSE firstConcrete[id]]
       /\ UNCHANGED detection_count
       /\ UNCHANGED <<now, model_loaded, db_conn, configured, notif_enabled, webhook_url,
                      cooldown_seconds>>
       /\ UNCHANGED notFP

\* the frame pipeline with the failures of the tracker block
NextFPErr ==
    \/ ProcessFrame
    \/ TrackerUpdateRaises
    \/ LifecyclePassRaises
    \/ JobComplete
    \/ TickFP


(***************************************************************************)
(* the server's sessions: offer/on_track, the receivers of all cameras,    *)
(* connected_cameras, active_receivers and the freshest-frame register     *)
(***************************************************************************)
\* what update_video_feed takes before latest_frames.get(0): app.py has no
\* 'with frame_lock' around the read
ReaderTakesLock == FALSE

InitSess ==
    /\ receivers = [r \in 1..MaxRecv |-> [cam |-> 0, st |-> "none"]]
    /\ connected_cameras = {}
    /\ active_receivers = {}
    /\ latest_frames = [c \in Cams |-> 0]
    /\ frame_lock = 0
    /\ lastRead = "none"

\* receivers whose intake loop runs with self.running true
Running(cam) == {r \in 1..MaxRecv : receivers[r].st = "running" /\ receivers[r].cam = cam}

Created == {r \in 1..MaxRecv : receivers[r].st # "none"}

\* offer + on_track: connected_cameras.add(camera_id); receiver = VideoReceiver(track,
\* camera_id); active_receivers.add(receiver); ensure_future(receiver.run())
Offer ==
    /\ Cardinality(Created) < MaxRecv
    /\ \E cam \in Cams :
         LET r == Cardinality(Created) + 1 IN
           /\ receivers' = [receivers EXCEPT ![r] = [cam |-> cam, st |-> "running"]]
           /\ connected_cameras' = connected_cameras \cup {cam}
           /\ active_receivers' = active_receivers \cup {r}
    /\ UNCHANGED <<latest_frames, frame_lock, lastRead>>
    /\ UNCHANGED notSess

\* run: with frame_lock:  (a frame was drained and processed)
LockRegister ==
    /\ frame_lock = 0
    /\ \E r \in 1..MaxRecv :
         /\ receivers[r].st \in {"running", "stopping"}
         /\ frame_lock' = r
    /\ UNCHANGED <<receivers, connected_cameras, active_receivers, latest_frames, lastRead>>
    /\ UNCHANGED notSess

\* run: latest_frames[self.camera_id] = output_frame, and the lock is released
StoreFrame ==
    /\ frame_lock # 0
    /\ latest_frames' = [latest_frames EXCEPT ![receivers[frame_lock].cam] = frame_lock]
    /\ frame_lock' = 0
    /\ UNCHANGED <<receivers, connected_cameras, active_receivers, lastRead>>
    /\ UNCHANGED notSess

\* app.py update_video_feed: frame = latest_frames.get(0)
UpdateVideoFeed ==
    /\ ReaderTakesLock => frame_lock = 0
    /\ lastRead' = IF ReaderTakesLock THEN "locked"
                   ELSE IF frame_lock # 0 THEN "overlap" ELSE "unlocked"
    /\ UNCHANGED <<receivers, connected_cameras, active_receivers, latest_frames, frame_lock>>
    /\ UNCHANGED notSess

\* cleanup: for receiver in list(active_receivers): receiver.stop()
Cleanup ==
    /\ \E r \in active_receivers : receivers[r].st = "running"
    /\ receivers' = [r \in 1..MaxRecv |->
                       IF r \in active_receivers /\ receivers[r].st = "running"
                         THEN [receivers[r] EXCEPT !.st = "stopping"]
                         ELSE receivers[r]]
    /\ UNCHANGED <<connected_cameras, active_receivers, latest_frames, frame_lock, lastRead>>
    /\ UNCHANGED notSess

\* run leaves its loop (track error, or running is false); finally: self.stop();
\* connected_cameras.discard(self.camera_id); active_receivers.discard(self)
ReceiverExit ==
    /\ \E r \in 1..MaxRecv :
         /\ receivers[r].st \in {"running", "stopping"}
         /\ frame_lock # r
         /\ receivers' = [receivers EXCEPT ![r].st = "ended"]
         /\ connected_cameras' = connected_cameras \ {receivers[r].cam}
         /\ active_receivers' = active_receivers \ {r}
    /\ UNCHANGED <<latest_frames, frame_lock, lastRead>>
    /\ UNCHANGED notSess

NextSess ==
    \/ Offer
    \/ LockRegister
    \/ StoreFrame
    \/ UpdateVideoFeed
    \/ Cleanup
    \/ ReceiverExit


(***************************************************************************)
(* Specifications: one per component                                       *)
(***************************************************************************)
RecvInit == InitRecv /\ now = 0 /\ InitNotif /\ StartedHLS /\ IdleEdge /\ IdleFP /\ InitSess

SpecRecv == RecvInit /\ [][NextRecv]_vars

NotifInit == InitRecv /\ now = 0 /\ InitNotif /\ InitHLS /\ IdleEdge /\ IdleFP /\ InitSess

SpecNotif == NotifInit /\ [][NextNotif]_vars

HLSInit == InitRecv /\ now = 0 /\ InitNotif /\ InitHLS /\ IdleEdge /\ IdleFP /\ InitSess

SpecHLS == HLSInit /\ [][NextHLS]_vars

FPInit == InitRecv /\ now = 0 /\ InitNotif /\ InitHLS /\ IdleEdge /\ InitFP /\ InitSess

SpecFP == FPInit /\ [][NextFP]_vars

FPErrInit == InitRecv /\ now = 0 /\ InitNotif /\ InitHLS /\ IdleEdge /\ IdleFP /\ InitSess

SpecFPErr == FPErrInit /\ [][NextFPErr]_vars

\* frames keep arriving, submitted jobs complete, time passes
SpecFPLive ==
    /\ SpecFP
    /\ WF_vars(ProcessFrame)
    /\ WF_vars(JobComplete)
    /\ WF_vars(TickFP)

\* the frame pipeline at a fixed clock value: frames and job completions only
NextFPSlot ==
    \/ ProcessFrame
    \/ JobComplete

FPSlotInit == InitRecv /\ now = 0 /\ InitNotif /\ InitHLS /\ IdleEdge /\ InitFP /\ InitSess

\* frames keep arriving and submitted jobs complete
SpecFPSlotLive ==
    /\ FPSlotInit
    /\ [][NextFPSlot]_vars
    /\ WF_vars(ProcessFrame)
    /\ WF_vars(JobComplete)

SessInit == InitRecv /\ now = 0 /\ InitNotif /\ InitHLS /\ IdleEdge /\ IdleFP /\ InitSess

SpecSess == SessInit /\ [][NextSess]_vars

EdgeInit == InitRecv /\ now = 0 /\ InitNotif /\ InitHLS /\ InitEdge /\ IdleFP /\ InitSess

SpecEdge == EdgeInit /\ [][NextEdge]_vars

(***************************************************************************)
(* Claims                                                                  *)
(***************************************************************************)
RECURSIVE BurstLast(_)
\* The last frame of the burst that starts at frame i: the maximal run of frames
\* from i on in which each frame arrives less than one grace window after the
\* frame before it.
BurstLast(i) ==
    IF i < Len(arrT) /\ arrT[i + 1] - arrT[i] < GraceTicks
      THEN BurstLast(i + 1)
      ELSE i

\* C1: leaky-bucket freshness. When a call of _drain_buffer returns, the frame it
\* returns is the last frame it received, which is no older than the last frame of
\* the burst that began with the first frame of the call, and is exactly that last
\* frame when the burst began while the call was waiting; every frame that arrived
\* before the grace window elapsed was pulled; every earlier frame of the call is
\* discarded and no discarded frame is ever handed to the pipeline; each returning
\* call hands over exactly one frame.
C1_LeakyBucketFreshness ==
    /\ rpc = "returned" =>
         /\ drainFirst >= 1
         /\ frame = pulled
         /\ frame >= BurstLast(drainFirst)
         /\ arrT[drainFirst] >= drainStart => frame = BurstLast(drainFirst)
         /\ \A i \in 1..Len(arrT) : arrT[i] < graceDeadline => i <= frame
         /\ drained = frame - drainFirst
         /\ \A i \in drainFirst..(frame - 1) : i \in discarded
         /\ frame \notin discarded
    /\ Len(handed) + (IF rpc = "returned" THEN 1 ELSE 0) = returns
    /\ \A k \in 1..Len(handed) : handed[k] \notin discarded

\* C1 witness: a call has returned the third frame of a three-frame burst that
\* began while the call was waiting, and the two earlier frames are discarded.
C1_Witness ==
    /\ rpc = "returned"
    /\ drainFirst = 1
    /\ arrT[1] >= drainStart
    /\ frame = 3
    /\ BurstLast(1) = 3
    /\ discarded = {1, 2}

\* The earlier calls of send_alert for the label of call j, made with alerting enabled.
EarlierCalls(j) ==
    {i \in 1..(j - 1) : alertLog[i].label = alertLog[j].label /\ alertLog[i].on}

\* C3: cooldown enforcement. Among the send_alert calls made with alerting enabled:
\* of two calls for one label less than cooldown_seconds apart the later one is
\* suppressed when the earlier one was dispatched (the pair dispatches exactly one
\* alert), so any two dispatched alerts for one label are at least cooldown_seconds
\* apart; a call more than cooldown_seconds after every earlier call for its label
\* is dispatched; and the first call for a label is dispatched once the clock has
\* passed cooldown_seconds.
C3_CooldownEnforcement ==
    \A j \in 1..Len(alertLog) :
      alertLog[j].on =>
        /\ \A i \in EarlierCalls(j) :
             /\ alertLog[i].fired /\ alertLog[j].t - alertLog[i].t < cooldown_seconds
                  => ~alertLog[j].fired
             /\ alertLog[i].fired /\ alertLog[j].fired
                  => alertLog[j].t - alertLog[i].t >= cooldown_seconds
        /\ ( /\ EarlierCalls(j) # {}
             /\ \A i \in EarlierCalls(j) : alertLog[j].t - alertLog[i].t > cooldown_seconds )
             => alertLog[j].fired
        /\ (EarlierCalls(j) = {} /\ alertLog[j].t >= cooldown_seconds) => alertLog[j].fired

\* C3 witness: three calls for one label with alerting enabled: the first dispatched,
\* the second less than cooldown_seconds later and suppressed, the third more than
\* cooldown_seconds after the second and dispatched.
C3_Witness ==
    /\ Len(alertLog) >= 3
    /\ \E i, j, k \in 1..Len(alertLog) :
         /\ i < j /\ j < k
         /\ alertLog[i].label = alertLog[j].label /\ alertLog[j].label = alertLog[k].label
         /\ alertLog[i].on /\ alertLog[i].fired
         /\ alertLog[j].t - alertLog[i].t < cooldown_seconds /\ ~alertLog[j].fired
         /\ alertLog[k].t - alertLog[j].t > cooldown_seconds /\ alertLog[k].fired

\* C4: encoder self-healing. After a push_frame whose write failed with a broken
\* pipe while the recorder was not stopping, and whose restart launched the encoder,
\* the old subprocess is stopped, a new subprocess is the recorder's process, the
\* stopping flag is false and recording is true.
C4_EncoderSelfHealing ==
    hls_last = "recovered" =>
        /\ (hls_started - 1) \in hls_terminated
        /\ hls_process = hls_started
        /\ hls_process \notin hls_terminated
        /\ hls_recording
        /\ ~hls_stopping

\* C7: DDIL scenario. Every failed signaling attempt is followed by exactly one DDIL
\* cycle before the backoff wait; the cycle appends exactly one buffered-motion
\* record when it got a frame whose foreground ratio is above 5%, and none when the
\* ratio is 5% or less or no frame was available.
C7_DDILScenario ==
    /\ ddilCycles = (IF epc = "ddil" THEN failedAttempts - 1 ELSE failedAttempts)
    /\ motionChecks <= ddilCycles
    /\ records <= motionChecks
    /\ epc = "sleep5" =>
         /\ lastRatio > 5 => lastAppended = 1
         /\ lastRatio <= 5 => lastAppended = 0

\* C7 witness: every attempt so far has failed, two cycles have run, the first
\* appended a record and the last one saw a frame at exactly 5% and appended none.
C7_Witness ==
    /\ epc = "sleep5"
    /\ attempts = 2
    /\ failedAttempts = 2
    /\ ddilCycles = 2
    /\ records = 1
    /\ lastRatio = 5
    /\ lastAppended = 0

\* C2: at most one inference in flight. In every reachable state at most one
\* detection job is submitted and not yet collected, and a job is outstanding exactly
\* when inference_future holds one, so process never submits over an uncollected job.
C2_AtMostOneInference ==
    /\ jobs <= 1
    /\ (inference_future = "none") <=> (jobs = 0)

\* C2 witness: a second job is outstanding after an earlier one was collected and
\* its detections ran a lifecycle pass.
C2_Witness ==
    /\ jobs = 1
    /\ inference_future = "running"
    /\ everConfirmed # {}

\* a step in which process() ran the tracker update and the lifecycle pass
PassStep == inference_future = "done_dets" /\ frame_count' # frame_count

C6_LabelUpgradeMonotonic ==
    \A id \in DOMAIN active_tracks :
        active_tracks[id].label =
            (IF firstConcrete[id] = "none" THEN "unknown" ELSE firstConcrete[id])

\* C6 witness: a track persisted as "unknown" now holds the label "person".
C6_Witness ==
    \E id \in DOMAIN active_tracks :
        /\ active_tracks[id].label = "person"
        /\ active_tracks[id].row_id > 0
        /\ db_rows[active_tracks[id].row_id].label = "unknown"

C9_MaxConfidencePersisted ==
    \A r \in 1..Len(db_rows) : db_rows[r].max_conf = maxSeen[db_rows[r].track_id]

\* C10: stale tracks leave memory without further detections. While frames keep
\* arriving, a track in active_tracks whose last update is more than 10 s old is
\* eventually absent from active_tracks (or has been updated again).
C10_StaleTracksLeave ==
    \A id \in Ids :
        (id \in DOMAIN active_tracks /\ now - active_tracks[id].last_seen > 10)
          ~> ( \/ id \notin DOMAIN active_tracks
               \/ now - active_tracks[id].last_seen <= 10 )

\* C11: the edge control loop never terminates on an error: whatever raises during
\* an iteration of run() is caught and the loop goes on, so the loop is never left.
C11_LoopNeverTerminates == epc # "done"

C13_RepeatedRecovery ==
    hls_last \in {"recovered", "recovered_shape", "restart_failed", "ignored"} =>
        /\ hls_process \notin hls_dead
        /\ hls_dead \subseteq hls_terminated

\* the recorder after a deliberate stop
Stopped == hls_stopping /\ ~hls_recording /\ hls_process = 0

\* C14: deliberate shutdown is final. stop() leaves the recorder with stopping set,
\* recording false and no process; from that state no step (push_frame, a second
\* stop) starts a subprocess, terminates one, writes to a pipe or changes the state.
C14_ShutdownFinal ==
    [][ /\ HLSStop => Stopped'
        /\ Stopped =>
             /\ Stopped'
             /\ hls_started' = hls_started
             /\ hls_terminated' = hls_terminated
             /\ hls_written' = hls_written
      ]_vars

\* C14 witness: the only subprocess was terminated by stop() after a frame was
\* written, and a later push_frame returned without doing anything.
C14_Witness ==
    /\ Stopped
    /\ hls_last = "skipped"
    /\ hls_started = 1
    /\ hls_terminated = {1}
    /\ hls_written[1] = 1

\* C15: session uniqueness. In every reachable state at most one receiver is running
\* for each camera identifier, also when a second offer for the same camera_id
\* arrives while the first session's intake loop is still running.
C15_SessionUniqueness ==
    \A cam \in Cams : Cardinality(Running(cam)) <= 1

\* C17: every read of latest_frames is made while holding frame_lock, so no read
\* overlaps a write of the intake loop.
C17_RegisterAccessLocked == lastRead \in {"none", "locked"}

\* C16: the alert cooldown is keyed by label alone. With alerting enabled, a call of
\* send_alert is suppressed whenever an alert for the same label was dispatched less
\* than cooldown_seconds before it, for whichever camera either call was made; and
\* (once the clock has passed cooldown_seconds) a call is dispatched whenever no alert
\* for its own label was dispatched in the last cooldown_seconds, whatever was
\* dispatched for other labels.
C16_CooldownKeyedByLabel ==
    \A j \in 1..Len(alertLog) :
      alertLog[j].on =>
        /\ (\E i \in 1..(j - 1) :
               /\ alertLog[i].label = alertLog[j].label
               /\ alertLog[i].fired
               /\ alertLog[j].t - alertLog[i].t < cooldown_seconds)
             => ~alertLog[j].fired
        /\ ( /\ alertLog[j].t >= cooldown_seconds
             /\ \A i \in 1..(j - 1) :
                  (alertLog[i].label = alertLog[j].label /\ alertLog[i].fired)
                    => alertLog[j].t - alertLog[i].t >= cooldown_seconds )
             => alertLog[j].fired

\* C16 witness: an alert dispatched for camera 0, a call for the same label from
\* camera 1 within the cooldown suppressed, and a call for another label within the
\* same cooldown dispatched.
C16_Witness ==
    \E i, j, k \in 1..Len(alertLog) :
        /\ i < j /\ i < k
        /\ alertLog[i].fired /\ alertLog[i].cam = 0
        /\ alertLog[j].label = alertLog[i].label /\ alertLog[j].cam = 1
        /\ alertLog[j].t - alertLog[i].t < cooldown_seconds
        /\ ~alertLog[j].fired
        /\ alertLog[k].label # alertLog[i].label
        /\ alertLog[k].t - alertLog[i].t < cooldown_seconds
        /\ alertLog[k].fired

\* C18: intake failure. When recv() raises on an ended track the intake loop goes to
\* its exit; the exit stops the receiver and its recorder and removes the camera from
\* connected_cameras and the receiver from active_receivers; and from the moment the
\* loop is left no frame is pulled, handed on or stored and the loop never runs
\* again.
C18_IntakeFailure ==
    [][ /\ ( /\ InRecv /\ trackEnded /\ QueueEmpty
             /\ rnow < pollDeadline
             /\ (rpc = "recv_first" \/ rnow < graceDeadline)
             /\ rpc' # rpc )
             => rpc' = "finally"
        /\ rpc = "finally" => rpc' \in {"finally", "stopped"}
        /\ rpc' = "stopped" =>
             /\ ~running' /\ ~connected' /\ ~active'
             /\ hls_process' = 0 /\ ~hls_recording'
        /\ rpc \in {"finally", "stopped"} =>
             /\ handed' = handed
             /\ latest_frame' = latest_frame
             /\ pulled' = pulled
             /\ returns' = returns
        /\ rpc = "stopped" => rpc' = "stopped"
      ]_vars

\* C18 witness: the track ended after a frame was handed on, and the loop has exited:
\* the recorder's subprocess is terminated and the receiver is deregistered.
C18_Witness ==
    /\ rpc = "stopped"
    /\ trackEnded
    /\ QueueEmpty
    /\ Len(handed) >= 1
    /\ hls_terminated = {1}
    /\ ~connected /\ ~active

\* send_alert calls of a log that dispatched an alert
FiredCount(log) == Cardinality({i \in 1..Len(log) : log[i].fired})

NewlyTracked == DOMAIN active_tracks' \ DOMAIN active_tracks

Removed == {id \in Ids : createCalls[id] >= 1 /\ id \notin DOMAIN active_tracks}

\* C20: no resurrection. An identifier that has been removed from active_tracks is
\* never entered again, and a lifecycle pass enters only identifiers that it has
\* never entered before.
C20_NoResurrection ==
    [][ \A id \in Ids :
          /\ id \in Removed => (id \notin DOMAIN active_tracks' /\ createCalls'[id] = createCalls[id])
          /\ createCalls'[id] # createCalls[id] => createCalls[id] = 0
      ]_vars

\* C20 witness: identifier 1 was entered and later removed as stale, identifier 2 is
\* tracked, and the next job is running.
C20_Witness ==
    /\ 1 \in Removed
    /\ trk[1] = "deleted"
    /\ 2 \in DOMAIN active_tracks
    /\ inference_future = "running"

\* C21: on every control-loop tick that finds the session state new, failed or closed
\* the controller attempts a signaling exchange (it leaves the tick in no other way),
\* and an attempt that fails leaves the session state as it was, in the disconnected
\* branch, on the way to the next tick.
C21_AttemptWhenNotConnected ==
    [][ /\ (epc = "tick" /\ pcState \in {"new", "failed", "closed"}) =>
              \/ attempts' = attempts + 1
              \/ (epc' = "tick" /\ attempts' = attempts /\ ddilCycles' = ddilCycles)
        /\ failedAttempts' # failedAttempts =>
              /\ attempts' = attempts + 1
              /\ pcState' = pcState
              /\ pcState' \in {"new", "failed", "closed"}
              /\ epc' = "ddil"
      ]_vars

\* C21 witness: after a failed attempt, its DDIL cycle and the wait, the next tick
\* has attempted again and failed again.
C21_Witness ==
    /\ attempts = 2
    /\ failedAttempts = 2
    /\ ddilCycles = 1
    /\ epc = "ddil"
    /\ pcState = "new"

\* C22: after a signaling exchange has succeeded the controller sends a further offer
\* only once the session state has become failed or closed.
C22_OneCallPerConnection ==
    [][ (haveRemote /\ attempts' # attempts) => pcState \in {"failed", "closed"} ]_vars

\* C23: retry ordering. A failed attempt is followed by the DDIL cycle; the cycle,
\* whether it got a frame or not, is run once and followed by the 5 s wait; the wait
\* is followed by the next tick; and an attempt is made only from a tick. So between
\* a failed attempt and the next attempt lie exactly one cycle and one wait.
C23_RetryOrdering ==
    [][ /\ failedAttempts' # failedAttempts => epc' = "ddil"
        /\ epc = "ddil" =>
              \/ (epc' = "sleep5" /\ ddilCycles' = ddilCycles + 1 /\ attempts' = attempts)
              \/ (epc' = "ddil" /\ ddilCycles' = ddilCycles /\ attempts' = attempts)
        /\ epc = "sleep5" =>
              /\ epc' \in {"sleep5", "tick"}
              /\ ddilCycles' = ddilCycles
              /\ attempts' = attempts
        /\ attempts' # attempts => epc = "tick"
        /\ ddilCycles' # ddilCycles => epc = "ddil"
      ]_vars

\* C23 witness: two failed attempts, each followed by its own DDIL cycle, the camera
\* not being open, and the controller is in its second 5 s wait.
C23_Witness ==
    /\ ~camOpen
    /\ failedAttempts = 2
    /\ ddilCycles = 2
    /\ motionChecks = 0
    /\ epc = "sleep5"

\* C24: submission cadence. A call of process submits a job exactly when the frame's
\* number is a multiple of INFERENCE_INTERVAL (the count modulo the interval becomes
\* 0), the model is loaded and no job is outstanding after the collection step (the
\* slot was empty, or its job had finished and was collected); on every other frame
\* the slot is only emptied or left alone.
C24_SubmissionCadence ==
    [][ frame_count' # frame_count =>
          LET collected == inference_future \in {"done_dets", "done_empty", "failed"}
              should == /\ frame_count' = 0
                        /\ model_loaded
                        /\ inference_future # "running"
          IN /\ frame_count' = (frame_count + 1) % 3
             /\ inference_future' = (IF should THEN "running"
                                     ELSE IF collected THEN "none" ELSE inference_future)
             /\ jobs' = jobs - (IF collected THEN 1 ELSE 0) + (IF should THEN 1 ELSE 0)
      ]_vars

\* C24 witness: with the model loaded, a frame whose number is not a multiple of 3 has
\* collected a job with detections and left the slot empty.
C24_Witness ==
    /\ model_loaded
    /\ frame_count = 1
    /\ inference_future = "none"
    /\ jobs = 0
    /\ everConfirmed # {}

\* C25: on every frame that collects a completed job's result, with or without
\* detections, the tracker is updated and a lifecycle pass runs, so that no stale
\* track is left in active_tracks after the frame; on a frame with no newly completed
\* job the tracker and its cached output stay as they are.
C25_TrackerAdvance ==
    [][ frame_count' # frame_count =>
          /\ inference_future \in {"done_dets", "done_empty"} =>
                \A id \in DOMAIN active_tracks' :
                    now - active_tracks'[id].last_seen <= 10
          /\ inference_future \in {"none", "running"} =>
                (trk' = trk /\ latest_tracks' = latest_tracks)
      ]_vars

\* identifiers that the tracker output of the step reports confirmed
ConfirmedNow == {id \in DOMAIN latest_tracks' : latest_tracks'[id]}

\* alert log entries (send_alert calls) added by the step
NewAlerts == (Len(alertLog) + 1)..Len(alertLog')

C28_InferenceFailure ==
    [][ (frame_count' # frame_count /\ inference_future = "failed") =>
          /\ trk' = trk
          /\ latest_tracks' = latest_tracks
          /\ active_tracks' = active_tracks
          /\ db_rows' = db_rows
          /\ alertLog' = alertLog
          /\ createCalls' = createCalls
          /\ detection_count' = detection_count
          /\ inference_future' = (IF frame_count' = 0 /\ model_loaded THEN "running" ELSE "none")
          /\ jobs' = (IF inference_future' = "running" THEN 1 ELSE 0)
      ]_vars

\* C28 witness: a job has raised while a track is held in active_tracks, and the next
\* frame, a multiple of 3, will collect it.
C28_Witness ==
    /\ inference_future = "failed"
    /\ frame_count = 2
    /\ DOMAIN active_tracks # {}

\* the tracker block of the step raised
TrackerBlockRaises == TrackerUpdateRaises \/ LifecyclePassRaises

\* C29: tracker failure. When the tracker update, or the lifecycle pass that follows
\* it, raises, process still returns the frame (the frame is counted and the slot is
\* cleared, so the loop goes on) and the cached tracker output is the one from
\* before the failed update.
C29_TrackerFailure ==
    [][ TrackerBlockRaises =>
          /\ frame_count' = (frame_count + 1) % 3
          /\ inference_future' \in {"none", "running"}
          /\ latest_tracks' = latest_tracks
      ]_vars

\* C29 amended: a call of process that collects a job with detections always returns
\* the frame with the slot cleared, so the loop goes on, whether or not the tracker
\* block raises. Either update_tracks raised, and the cached output, the tracker and
\* active_tracks are the ones from before; or update_tracks returned, and the cached
\* output is the new output of the advanced tracker even when the lifecycle pass
\* then raises, in which case the published count stays as it was.
C29_TrackerFailureAmended ==
    [][ (frame_count' # frame_count /\ inference_future = "done_dets") =>
          /\ frame_count' = (frame_count + 1) % 3
          /\ inference_future' \in {"none", "running"}
          /\ \/ /\ latest_tracks' = latest_tracks
                /\ trk' = trk
                /\ active_tracks' = active_tracks
                /\ detection_count' = detection_count
             \/ /\ DOMAIN latest_tracks' = Live(trk')
                /\ \A id \in DOMAIN latest_tracks' :
                      latest_tracks'[id] = (trk'[id] = "confirmed")
                /\ \/ /\ \A id \in ConfirmedNow : id \in DOMAIN active_tracks'
                      /\ detection_count' = Cardinality(ConfirmedNow)
                   \/ /\ \E id \in ConfirmedNow : id \notin DOMAIN active_tracks'
                      /\ detection_count' = detection_count
      ]_vars

\* C29 witness: after a lifecycle pass that raised, the cached output holds the
\* confirmed track 1 that is not tracked and has no record, and the slot is empty.
C29_Witness ==
    /\ 1 \in DOMAIN latest_tracks
    /\ latest_tracks[1]
    /\ active_tracks = << >>
    /\ createCalls[1] = 0
    /\ inference_future = "none"

\* position of the intake loop on its way out: a pending drain, the frame it returned,
\* the loop test, the finally block, the end of run
Order(pc) ==
    CASE pc = "recv_first" -> 1
      [] pc = "recv_timed" -> 2
      [] pc = "returned" -> 3
      [] pc = "loop" -> 4
      [] pc = "finally" -> 5
      [] pc = "stopped" -> 6

\* C30: bounded teardown. When stop() sets running to false, the recorder subprocess
\* is terminated and a pending drain is due to time out within one poll timeout of
\* that moment; from then on the pending drain never outlasts its deadline, the loop
\* only moves forward (the rest of the drain, the iteration in progress, the loop
\* test, the finally block) and never starts another drain, whether or not frames
\* keep arriving, and the recorder stays stopped.
C30_BoundedTeardown ==
    [][ /\ (running /\ ~running') =>
             /\ hls_process' = 0 /\ ~hls_recording'
             /\ hls_process # 0 => hls_process \in hls_terminated'
             /\ InRecv => (pollDeadline' = pollDeadline /\ pollDeadline <= rnow + PollTicks)
        /\ ~running =>
             /\ ~running'
             /\ rpc' # rpc => Order(rpc') > Order(rpc)
             /\ InRecv => rnow' <= pollDeadline
             /\ hls_process' = 0 /\ ~hls_recording'
      ]_vars

\* C30 witness: the loop was ended by stop() while the track was still open and had
\* delivered frames that were never taken; frames had been handed on before, the run
\* is over and the recorder's subprocess is terminated.
C30_Witness ==
    /\ rpc = "stopped"
    /\ ~trackEnded
    /\ Len(handed) >= 1
    /\ pulled < Len(arrT)
    /\ hls_process = 0
    /\ hls_terminated # {}

\* C31: results after teardown are discarded. Once stop() has set running to false,
\* the receiver hands no further frame to the recorder and the detection pipeline
\* (so no result is collected, no tracker update, record write or alert follows)
\* and writes the freshest-frame register no more.
C31_NothingAfterTeardown ==
    [][ ~running => (handed' = handed /\ latest_frame' = latest_frame) ]_vars

\* calls of send_alert that got as far as the cooldown table: they read the label's
\* entry, and write it when they fire
TableAccesses == {i \in 1..Len(alertLog) : alertLog[i].on}

\* C32: per-camera confinement. No entry of the alert-cooldown table is read or
\* written on behalf of two different cameras: all calls that access the entry of
\* one label come from the same camera.
C32_PerCameraConfinement ==
    \A i, j \in TableAccesses :
        alertLog[i].label = alertLog[j].label => alertLog[i].cam = alertLog[j].cam

\* C37: connected-set consistency. A camera id is in connected_cameras whenever a
\* receiver for that camera is running.
C37_ConnectedSetConsistency ==
    \A cam \in Cams : Running(cam) # {} => cam \in connected_cameras

\* C33: a suppressed trigger has no effect. A send_alert call made while alerting is
\* disabled, or fewer than cooldown_seconds after the label's last fired alert,
\* dispatches nothing and leaves the cooldown table unchanged; a call made exactly
\* cooldown_seconds after the label's last fired alert is dispatched and recorded.
C33_SuppressedTriggerNoEffect ==
    [][ Len(alertLog') = Len(alertLog) + 1 =>
          LET e == alertLog'[Len(alertLog')]
              known == e.label \in DOMAIN last_alerts
          IN /\ ~(notif_enabled /\ webhook_url) => ~e.fired
             /\ (known /\ now - last_alerts[e.label] < cooldown_seconds) => ~e.fired
             /\ ~e.fired => last_alerts' = last_alerts
             /\ ( /\ notif_enabled /\ webhook_url
                  /\ known /\ now - last_alerts[e.label] = cooldown_seconds )
                  => /\ e.fired
                     /\ last_alerts'[e.label] = now
                     /\ \A l \in DOMAIN last_alerts \ {e.label} :
                           last_alerts'[l] = last_alerts[l]
      ]_vars

\* C33 witness: an alert fired, a trigger of the same label inside the cooldown was
\* suppressed without moving the label's time, and the trigger exactly
\* cooldown_seconds after the fired one was dispatched.
C33_Witness ==
    \E i, j, k \in 1..Len(alertLog) :
        /\ i < j /\ j < k
        /\ alertLog[i].label = alertLog[j].label /\ alertLog[j].label = alertLog[k].label
        /\ alertLog[i].fired
        /\ alertLog[j].t > alertLog[i].t /\ ~alertLog[j].fired
        /\ alertLog[k].t - alertLog[i].t = cooldown_seconds
        /\ alertLog[k].fired
        /\ last_alerts[alertLog[k].label] = alertLog[k].t

\* C35: the first alert always fires. A send_alert call made while alerting is
\* enabled, for a label that has no entry in the cooldown table, dispatches an alert
\* and records its time, whatever the clock value and the configured cooldown.
C35_FirstAlertFires ==
    [][ ( /\ Len(alertLog') = Len(alertLog) + 1
          /\ notif_enabled /\ webhook_url
          /\ alertLog'[Len(alertLog')].label \notin DOMAIN last_alerts )
          => /\ alertLog'[Len(alertLog')].fired
             /\ alertLog'[Len(alertLog')].label \in DOMAIN last_alerts'
             /\ last_alerts'[alertLog'[Len(alertLog')].label] = now
      ]_vars

\* C34: intake order. The frames handed to the recorder and the detection pipeline,
\* numbered in arrival order, form a strictly increasing sequence of frames that
\* did arrive: a subsequence of the arrivals, no frame twice, none after a later one.
C34_IntakeOrder ==
    /\ \A k \in 1..Len(handed) : handed[k] \in 1..Len(arrT)
    /\ \A k \in 1..(Len(handed) - 1) : handed[k] < handed[k + 1]
    /\ \A k \in 1..Len(handed) : handed[k] <= pulled

\* C34 witness: two frames were handed on and at least one frame that arrived between
\* them was not.
C34_Witness ==
    /\ Len(handed) = 2
    /\ handed[2] - handed[1] >= 2

\* C36: the encoder is restarted only because a write to its pipe failed. A
\* push_frame call that rejects the frame before any byte is written (the shape does
\* not have three entries, or another exception ahead of the write) leaves the
\* running subprocess and the recording and stopping flags unchanged.
C36_RestartOnlyOnPipeFailure ==
    [][ hls_last' \in {"recovered_shape", "error"} =>
          /\ hls_process' = hls_process
          /\ hls_recording' = hls_recording
          /\ hls_stopping' = hls_stopping
          /\ hls_terminated' = hls_terminated
      ]_vars

\* C38: intake progress. The drain is not starved: the poll timeout around the drain
\* only ever ends a drain that has pulled no frame, so a frame that was pulled is
\* never thrown away by it and frames that keep arriving get handed on.
C38_IntakeProgress ==
    [][ (InRecv /\ rpc' = "loop") => (frame = 0 /\ discarded' = discarded) ]_vars

\* the slot holds a job that has finished (normally or by raising) and is not yet collected
Finished == inference_future \in {"done_dets", "done_empty", "failed"}

\* C40: inference progress. With the model loaded, frames arriving and every
\* submitted job completing, a job is outstanding again and again, the slot is
\* released again and again (it never stays occupied forever), and every finished
\* job is eventually collected.
C40_InferenceProgress ==
    model_loaded =>
        /\ []<>(inference_future = "running")
        /\ []<>(inference_future # "running")
        /\ (inference_future = "running") ~> Finished
        /\ Finished ~> ~Finished

\* C40 witness: with the model loaded, a job that raised is waiting in the slot on a
\* frame count from which the next frame will collect it and submit a new one.
C40_Witness ==
    /\ model_loaded
    /\ inference_future = "failed"
    /\ frame_count = 2
    /\ jobs = 1
    /\ everConfirmed # {}

\* detections have stopped for longer than the staleness window: no result with
\* detections is waiting and every held track was last seen more than 10 s ago
DetectionsStopped ==
    /\ inference_future # "done_dets"
    /\ \A id \in DOMAIN active_tracks : now - active_tracks[id].last_seen > 10

\* C39: the published count follows the tracks. Once detections have stopped for
\* longer than the staleness window, with frames still arriving, the published
\* per-camera count of active tracks eventually becomes 0 and stays 0.
C39_CountFollowsTracks ==
    <>[]DetectionsStopped => <>[](detection_count = 0)

=============================================================================
